---- MODULE Spec2Model ----
(***************************************************************************)
(* A model of PorkbunClient (src/src/client.ts): the request pipeline      *)
(* #makeRequest, the response normalisation #convertApiResponse, the       *)
(* error classes of src/src/errors.ts and the public method wrappers.      *)
(*                                                                         *)
(* JavaScript values are tagged records: [t |-> "string", v |-> "yes"],    *)
(* [t |-> "number", v |-> 1], [t |-> "boolean", v |-> TRUE],               *)
(* [t |-> "null"], [t |-> "undefined"], [t |-> "array", v |-> <<...>>],    *)
(* [t |-> "object", v |-> f] with f a function from property names.        *)
(***************************************************************************)
EXTENDS Integers, Sequences, FiniteSets, TLC

VARIABLES
    config,     \* the PorkbunConfig object handed to the constructor
    client,     \* the private fields #apiKey, #secretKey, #baseUrl, #timeout
    calls,      \* one record per method invocation (see IdleCall)
    normIn,     \* the value handed to #convertApiResponse (normalisation runs)
    normOut,    \* the value it returned
    normPc      \* "none" | "ready" | "done" | "twice"

vars == <<config, client, calls, normIn, normOut, normPc>>

----------------------------------------------------------------------------
(* Bounds of the model.                                                    *)

MaxCalls == 2       \* method invocations that may be in flight on one client
MaxLen   == 2       \* longest array among the normalised values
MaxDepth == 2       \* wrappers put around a value (nesting depth above it)

Calls == 1..MaxCalls

----------------------------------------------------------------------------
(* JavaScript values.                                                      *)

Str(s)  == [t |-> "string", v |-> s]
Num(n)  == [t |-> "number", v |-> n]
Bool(b) == [t |-> "boolean", v |-> b]
Null      == [t |-> "null"]
Undefined == [t |-> "undefined"]
Arr(s)  == [t |-> "array", v |-> s]
Obj(f)  == [t |-> "object", v |-> f]

EmptyObj == Obj(<<>>)

\* o.k for an object o: undefined when o has no own property k
Get(o, k) == IF o.t = "object" /\ k \in DOMAIN o.v THEN o.v[k] ELSE Undefined

\* {...a, ...b}: the properties of b win over those of a
Spread(a, b) ==
    Obj([k \in (DOMAIN a.v) \cup (DOMAIN b.v) |->
            IF k \in DOMAIN b.v THEN b.v[k] ELSE a.v[k]])

\* JavaScript truthiness of a value
Truthy(x) ==
    CASE x.t = "undefined" -> FALSE
      [] x.t = "null"      -> FALSE
      [] x.t = "boolean"   -> x.v
      [] x.t = "number"    -> x.v # 0
      [] x.t = "string"    -> x.v # ""
      [] OTHER             -> TRUE

\* String.prototype.includes
Includes(s, sub) ==
    \E i \in 1..(Len(s) - Len(sub) + 1) : SubSeq(s, i, i + Len(sub) - 1) = sub

----------------------------------------------------------------------------
(* #convertApiResponse                                                     *)

RECURSIVE convertApiResponse(_)
convertApiResponse(response) ==
    IF response.t \in {"null", "undefined"} THEN response
    ELSE IF response.t = "array" THEN
        Arr([i \in DOMAIN response.v |-> convertApiResponse(response.v[i])])
    ELSE IF response.t = "object" THEN
        Obj([key \in DOMAIN response.v |->
                IF response.v[key] = Str("yes") THEN Bool(TRUE)
                ELSE IF response.v[key] = Str("no") THEN Bool(FALSE)
                ELSE IF response.v[key].t \in {"object", "array"}
                     THEN convertApiResponse(response.v[key])
                     ELSE response.v[key]])
    ELSE response

----------------------------------------------------------------------------
(* The values normalisation is run on: leaves, arrays and objects of       *)
(* leaves, and those wrapped in up to MaxDepth one-element arrays and      *)
(* one-property objects.                                                   *)

Leaves == {Str("yes"), Str("no"), Str("10.98"), Num(1), Null}

Keys == {"avail", "price"}

Arrays(S)  == {Arr(s) : s \in UNION {[1..n -> S] : n \in 0..MaxLen}}
Objects(S) == {Obj(f) : f \in UNION {[K -> S] : K \in SUBSET Keys}}

Wrap(S) == {Arr(<<x>>) : x \in S} \cup {Obj([response |-> x]) : x \in S}

RECURSIVE WrapN(_, _)
WrapN(S, n) == IF n = 0 THEN S ELSE S \cup WrapN(Wrap(S), n - 1)

JsonValues == WrapN(Leaves \cup Arrays(Leaves) \cup Objects(Leaves), MaxDepth)

----------------------------------------------------------------------------
(* Errors (src/src/errors.ts) and other thrown values.                     *)

None == [t |-> "none"]

\* new Error(message), new TypeError(message), new SyntaxError(message)
NewError(class, message) ==
    [t |-> "error", class |-> class, name |-> class, message |-> message,
     status |-> Undefined, limits |-> Undefined]

\* new PorkbunAuthError(message)
PorkbunAuthError(message) ==
    [t |-> "error", class |-> "PorkbunAuthError", name |-> "PorkbunAuthError",
     message |-> message, status |-> Str("AUTH_ERROR"), limits |-> Undefined]

\* new PorkbunRateLimitError(message, limits)
PorkbunRateLimitError(message, limits) ==
    [t |-> "error", class |-> "PorkbunRateLimitError",
     name |-> "PorkbunRateLimitError",
     message |-> IF message = Undefined THEN "Rate limit exceeded" ELSE message.v,
     status |-> Str("RATE_LIMIT"), limits |-> limits]

\* what fetch rejects with once controller.abort() has run: a DOMException
\* named AbortError, which is an instance of Error
AbortError ==
    [t |-> "error", class |-> "DOMException", name |-> "AbortError",
     message |-> "This operation was aborted",
     status |-> Undefined, limits |-> Undefined]

\* error instanceof Error
InstanceOfError(e) == e.t = "error"

----------------------------------------------------------------------------
(* Construction.                                                           *)

DEFAULT_TIMEOUT == 30000
DEFAULT_BASE_URL == "https://api.porkbun.com/api/json/v3"
IPV4_BASE_URL == "https://api-ipv4.porkbun.com/api/json/v3"

\* a || b
Or(a, b) == IF Truthy(a) THEN a ELSE b

\* the fields the constructor sets from a PorkbunConfig
Constructor(cfg) ==
    [apiKey    |-> Get(cfg, "apiKey"),
     secretKey |-> Get(cfg, "secretKey"),
     baseUrl   |-> Or(Get(cfg, "baseUrl"), Str(DEFAULT_BASE_URL)),
     timeout   |-> Or(Get(cfg, "timeout"), Num(DEFAULT_TIMEOUT))]

\* the configurations a client is constructed with: the fields the
\* constructor reads, with and without the optional ones, and the shape of
\* the PorkbunConfig type (secretApiKey)
Configs ==
    { Obj([apiKey |-> Str("pk1"), secretKey |-> Str("sk1")]),
      Obj([apiKey |-> Str("pk1"), secretKey |-> Str("sk1"),
           baseUrl |-> Str(IPV4_BASE_URL), timeout |-> Num(5000)]),
      Obj([apiKey |-> Str("pk1"), secretKey |-> Str("sk1"),
           timeout |-> Num(0)]),
      Obj([apiKey |-> Str("pk1"), secretApiKey |-> Str("sk1"),
           baseUrl |-> Str(DEFAULT_BASE_URL), timeout |-> Num(DEFAULT_TIMEOUT)]) }

\* #getAuth()
getAuth == Obj([apikey |-> client.apiKey, secretapikey |-> client.secretKey])

----------------------------------------------------------------------------
(* Calls. A call record holds one invocation of a public method: where it  *)
(* stands (pc), what was requested, the timer and AbortController of       *)
(* #makeRequest, the transport response, and how the returned promise      *)
(* settled (result or error).                                              *)

IdleCall ==
    [pc       |-> "idle",     \* idle, fetching, reading, returned, failed
     method   |-> "none",
     pipeline |-> FALSE,      \* routed through #makeRequest
     void     |-> FALSE,      \* the wrapper awaits and returns nothing
     args     |-> None,
     endpoint |-> "",         \* the path of the request
     url      |-> "",
     verb     |-> "",         \* the method option of fetch
     headers  |-> <<>>,       \* the headers option of fetch
     data     |-> None,       \* the payload handed to #makeRequest
     body     |-> None,       \* the object handed to JSON.stringify
     sent     |-> None,       \* what JSON.stringify put on the wire
     timer    |-> "none",     \* none, pending, cleared, fired
     delay    |-> None,       \* the delay setTimeout was given
     aborted  |-> FALSE,      \* controller.signal.aborted
     requests |-> 0,          \* calls of fetch
     response |-> None,
     value    |-> None,       \* what #makeRequest resolved with
     result   |-> None,
     thrown   |-> None,       \* the value the catch block caught
     error    |-> None]

\* `${x}` in a template literal
ToStr(x) ==
    CASE x.t = "string"    -> x.v
      [] x.t = "number"    -> ToString(x.v)
      [] x.t = "undefined" -> "undefined"
      [] x.t = "null"      -> "null"
      [] x.t = "boolean"   -> IF x.v THEN "true" ELSE "false"
      [] OTHER             -> "[object Object]"

\* JSON.stringify followed by the receiver's parse: properties whose value
\* is undefined are not sent, undefined array elements are sent as null
RECURSIVE JSONStringify(_)
JSONStringify(x) ==
    IF x.t = "object" THEN
        Obj([k \in {k \in DOMAIN x.v : x.v[k] # Undefined} |->
                JSONStringify(x.v[k])])
    ELSE IF x.t = "array" THEN
        Arr([i \in DOMAIN x.v |->
                IF x.v[i] = Undefined THEN Null ELSE JSONStringify(x.v[i])])
    ELSE x

\* const body = {...this.#getAuth(), ...data}
MergeBody(data) == Spread(getAuth, data)

\* a parameter with a default value: f(x = d)
Default(x, d) == IF x = Undefined THEN d ELSE x

\* the arguments of a method, given as <<name, value>> pairs, by name
ArgsObject(pairs) ==
    [n \in {pairs[i][1] : i \in DOMAIN pairs} |->
        pairs[CHOOSE i \in DOMAIN pairs : pairs[i][1] = n][2]]

\* headers: {'Content-Type': 'application/json'}
JsonHeaders == [h \in {"Content-Type"} |-> "application/json"]

\* makeRequest keeping the url it built as the base URL of the client
makeRequest_stateful(c, method, args, endpoint, data, void) ==
    /\ calls[c].pc = "idle"
    /\ calls' = [calls EXCEPT ![c] =
          [IdleCall EXCEPT
             !.pc = "fetching", !.method = method, !.pipeline = TRUE,
             !.void = void, !.args = ArgsObject(args),
             !.endpoint = endpoint,
             !.url = ToStr(client.baseUrl) \o endpoint,
             !.verb = "POST", !.headers = JsonHeaders,
             !.data = Default(data, EmptyObj),
             !.body = MergeBody(Default(data, EmptyObj)),
             !.sent = JSONStringify(MergeBody(Default(data, EmptyObj))),
             !.timer = "pending", !.delay = client.timeout,
             !.requests = calls[c].requests + 1]]
    /\ client' = [client EXCEPT !.baseUrl = Str(ToStr(client.baseUrl) \o endpoint)]
    /\ UNCHANGED <<config, normIn, normOut, normPc>>

\* makeRequest joining the base URL and the path with a separator
makeRequest_slash(c, method, args, endpoint, data, void) ==
    /\ calls[c].pc = "idle"
    /\ calls' = [calls EXCEPT ![c] =
          [IdleCall EXCEPT
             !.pc = "fetching", !.method = method, !.pipeline = TRUE,
             !.void = void, !.args = ArgsObject(args),
             !.endpoint = endpoint,
             !.url = ToStr(client.baseUrl) \o "/" \o endpoint,
             !.verb = "POST", !.headers = JsonHeaders,
             !.data = Default(data, EmptyObj),
             !.body = MergeBody(Default(data, EmptyObj)),
             !.sent = JSONStringify(MergeBody(Default(data, EmptyObj))),
             !.timer = "pending", !.delay = client.timeout,
             !.requests = calls[c].requests + 1]]
    /\ UNCHANGED <<config, client, normIn, normOut, normPc>>

\* makeRequest passing the API key in the query string as well
makeRequest_keyInUrl(c, method, args, endpoint, data, void) ==
    /\ calls[c].pc = "idle"
    /\ calls' = [calls EXCEPT ![c] =
          [IdleCall EXCEPT
             !.pc = "fetching", !.method = method, !.pipeline = TRUE,
             !.void = void, !.args = ArgsObject(args),
             !.endpoint = endpoint,
             !.url = ToStr(client.baseUrl) \o endpoint \o "?apikey=" \o ToStr(client.apiKey),
             !.verb = "POST", !.headers = JsonHeaders,
             !.data = Default(data, EmptyObj),
             !.body = MergeBody(Default(data, EmptyObj)),
             !.sent = JSONStringify(MergeBody(Default(data, EmptyObj))),
             !.timer = "pending", !.delay = client.timeout,
             !.requests = calls[c].requests + 1]]
    /\ UNCHANGED <<config, client, normIn, normOut, normPc>>

\* #makeRequest up to its first await: the url and the body are built, the
\* timer is armed and fetch is called
makeRequest(c, method, args, endpoint, data, void) ==
    /\ calls[c].pc = "idle"
    /\ calls' = [calls EXCEPT ![c] =
          [IdleCall EXCEPT
             !.pc = "fetching", !.method = method, !.pipeline = TRUE,
             !.void = void, !.args = ArgsObject(args),
             !.endpoint = endpoint,
             !.url = ToStr(client.baseUrl) \o endpoint,
             !.verb = "POST", !.headers = JsonHeaders,
             !.data = Default(data, EmptyObj),
             !.body = MergeBody(Default(data, EmptyObj)),
             !.sent = JSONStringify(MergeBody(Default(data, EmptyObj))),
             !.timer = "pending", !.delay = client.timeout,
             !.requests = calls[c].requests + 1]]
    /\ UNCHANGED <<config, client, normIn, normOut, normPc>>

----------------------------------------------------------------------------
(* Transport responses.                                                    *)

\* response.ok
Ok(response) == response.status \in 200..299

\* HttpFailure with the wrong status singled out (401 for 403)
HttpFailure_401(response) ==
    IF response.status = 401
    THEN PorkbunAuthError(
            "Authentication failed or additional authentication required")
    ELSE NewError("Error", "HTTP " \o ToString(response.status) \o ": "
                              \o response.statusText)

\* HttpFailure with every 4xx status taken for an authentication failure
HttpFailure_4xx(response) ==
    IF response.status \in 400..499
    THEN PorkbunAuthError(
            "Authentication failed or additional authentication required")
    ELSE NewError("Error", "HTTP " \o ToString(response.status) \o ": "
                              \o response.statusText)

\* if (!response.ok) { ... }: what #makeRequest throws on a non-2xx status
HttpFailure(response) ==
    IF response.status = 403
    THEN PorkbunAuthError(
            "Authentication failed or additional authentication required")
    ELSE NewError("Error", "HTTP " \o ToString(response.status) \o ": "
                              \o response.statusText)

\* IsRateLimit without its second test
IsRateLimit_phrase(message) ==
    /\ message.t = "string"
    /\ Includes(message.v, "rate limit")

\* result.message?.includes('rate limit') || result.message?.includes('limit')
IsRateLimit(message) ==
    /\ message.t = "string"
    /\ Includes(message.v, "rate limit") \/ Includes(message.v, "limit")

\* ApiFailure without the fallback text
ApiFailure_noFallback(result) ==
    IF IsRateLimit(Get(result, "message"))
    THEN PorkbunRateLimitError(Get(result, "message"), Undefined)
    ELSE NewError("Error", ToStr(Or(Get(result, "message"), Str(""))))

\* the body of if (result.status === 'ERROR') { ... }: what is thrown
ApiFailure(result) ==
    IF IsRateLimit(Get(result, "message"))
    THEN PorkbunRateLimitError(Get(result, "message"), Undefined)
    ELSE NewError("Error",
            ToStr(Or(Get(result, "message"), Str("Unknown API error"))))

\* DeleteStatus removing the status property at every depth
RECURSIVE DeleteStatus_deep(_)
DeleteStatus_deep(result) ==
    IF result.t = "object"
    THEN Obj([k \in (DOMAIN result.v) \ {"status"} |->
                DeleteStatus_deep(result.v[k])])
    ELSE IF result.t = "array"
    THEN Arr([i \in DOMAIN result.v |-> DeleteStatus_deep(result.v[i])])
    ELSE result

\* delete result.status
DeleteStatus(result) ==
    IF result.t = "object"
    THEN Obj([k \in (DOMAIN result.v) \ {"status"} |-> result.v[k]])
    ELSE result

\* catchError without the test for an AbortError
catchError_noAbort(error) ==
    IF InstanceOfError(error) THEN
        IF error.class \in {"PorkbunAuthError", "PorkbunRateLimitError"}
        THEN error
        ELSE NewError("Error", "API request failed: " \o error.message)
    ELSE NewError("Error", "Unknown error occurred")

\* the catch block of #makeRequest: what the call fails with
catchError(error) ==
    IF InstanceOfError(error) THEN
        IF error.name = "AbortError" THEN NewError("Error", "Request timeout")
        ELSE IF error.class \in {"PorkbunAuthError", "PorkbunRateLimitError"}
             THEN error
             ELSE NewError("Error", "API request failed: " \o error.message)
    ELSE NewError("Error", "Unknown error occurred")

\* the catch block of getPricing
catchPricingError(error) ==
    NewError("Error", "Failed to get pricing: " \o
        (IF InstanceOfError(error) THEN error.message ELSE "Unknown error"))

\* the catch block of the method the call is running
Caught(c, error) ==
    IF calls[c].pipeline THEN catchError(error) ELSE catchPricingError(error)

\* the rest of #makeRequest once response.json() has resolved with result:
\* [ok |-> TRUE, value |-> ...] or [ok |-> FALSE, error |-> thrown]
AfterJson(result) ==
    IF result.t \in {"null", "undefined"} THEN
        [ok |-> FALSE, error |-> NewError("TypeError",
            "Cannot read properties of null (reading 'status')")]
    ELSE IF Get(result, "status") = Str("ERROR") THEN
        [ok |-> FALSE, error |-> ApiFailure(result)]
    ELSE [ok |-> TRUE, value |-> convertApiResponse(DeleteStatus(result))]

\* the rest of getPricing once response.json() has resolved with result
AfterPricingJson(result) ==
    [ok |-> TRUE, value |-> convertApiResponse(result)]

----------------------------------------------------------------------------
(* The public methods. Each action is the method up to the await of fetch. *)

ping(c) == makeRequest(c, "ping", <<>>, "/ping", Undefined, FALSE)

\* getPricing calls fetch itself: no credentials, no timer, no signal
getPricing(c) ==
    /\ calls[c].pc = "idle"
    /\ calls' = [calls EXCEPT ![c] =
          [IdleCall EXCEPT
             !.pc = "fetching", !.method = "getPricing", !.args = <<>>,
             !.endpoint = "/pricing/get",
             !.url = ToStr(client.baseUrl) \o "/pricing/get",
             !.verb = "POST", !.headers = JsonHeaders,
             !.body = EmptyObj, !.sent = JSONStringify(EmptyObj),
             !.requests = calls[c].requests + 1]]
    /\ UNCHANGED <<config, client, normIn, normOut, normPc>>

\* updateNameServers returning what #makeRequest resolved with
updateNameServers_returning(c, domain, options) ==
    makeRequest(c, "updateNameServers",
        << <<"domain", domain>>, <<"options", options>> >>,
        "/domain/updateNs/" \o ToStr(domain), options, FALSE)

updateNameServers(c, domain, options) ==
    makeRequest(c, "updateNameServers",
        << <<"domain", domain>>, <<"options", options>> >>,
        "/domain/updateNs/" \o ToStr(domain), options, TRUE)

getNameServers(c, domain) ==
    makeRequest(c, "getNameServers", << <<"domain", domain>> >>,
        "/domain/getNs/" \o ToStr(domain), Undefined, FALSE)

\* the data object listDomains builds from its options
listDomainsData(options) ==
    IF Get(options, "includeLabels") # Undefined
    THEN Spread(options, Obj([includeLabels |->
            Str(IF Truthy(Get(options, "includeLabels")) THEN "yes" ELSE "no")]))
    ELSE Spread(options, EmptyObj)

listDomains(c, options) ==
    makeRequest(c, "listDomains", << <<"options", options>> >>,
        "/domain/listAll", listDomainsData(Default(options, EmptyObj)), FALSE)

\* addURLForwardData handing the booleans on as they are
addURLForwardData_raw(options) == Spread(options, EmptyObj)

\* the data object addURLForward builds from its options
addURLForwardData(options) ==
    Spread(options, Obj([
        includePath |->
            Str(IF Truthy(Get(options, "includePath")) THEN "yes" ELSE "no"),
        wildcard |->
            Str(IF Truthy(Get(options, "wildcard")) THEN "yes" ELSE "no")]))

addURLForward(c, domain, options) ==
    makeRequest(c, "addURLForward",
        << <<"domain", domain>>, <<"options", options>> >>,
        "/domain/addUrlForward/" \o ToStr(domain),
        addURLForwardData(options), TRUE)

getURLForwarding(c, domain) ==
    makeRequest(c, "getURLForwarding", << <<"domain", domain>> >>,
        "/domain/getUrlForwarding/" \o ToStr(domain), Undefined, FALSE)

deleteURLForward(c, domain, recordId) ==
    makeRequest(c, "deleteURLForward",
        << <<"domain", domain>>, <<"recordId", recordId>> >>,
        "/domain/deleteUrlForward/" \o ToStr(domain) \o "/" \o ToStr(recordId),
        Undefined, TRUE)

checkDomain(c, domain) ==
    makeRequest(c, "checkDomain", << <<"domain", domain>> >>,
        "/domain/checkDomain/" \o ToStr(domain), Undefined, FALSE)

createGlueRecord(c, domain, subdomain, options) ==
    makeRequest(c, "createGlueRecord",
        << <<"domain", domain>>,
           <<"subdomain", subdomain>>,
           <<"options", options>> >>,
        "/domain/createGlue/" \o ToStr(domain) \o "/" \o ToStr(subdomain),
        options, TRUE)

updateGlueRecord(c, domain, subdomain, options) ==
    makeRequest(c, "updateGlueRecord",
        << <<"domain", domain>>,
           <<"subdomain", subdomain>>,
           <<"options", options>> >>,
        "/domain/updateGlue/" \o ToStr(domain) \o "/" \o ToStr(subdomain),
        options, TRUE)

deleteGlueRecord(c, domain, subdomain) ==
    makeRequest(c, "deleteGlueRecord",
        << <<"domain", domain>>, <<"subdomain", subdomain>> >>,
        "/domain/deleteGlue/" \o ToStr(domain) \o "/" \o ToStr(subdomain),
        Undefined, TRUE)

getGlueRecords(c, domain) ==
    makeRequest(c, "getGlueRecords", << <<"domain", domain>> >>,
        "/domain/getGlue/" \o ToStr(domain), Undefined, FALSE)

createDNSRecord(c, domain, options) ==
    makeRequest(c, "createDNSRecord",
        << <<"domain", domain>>, <<"options", options>> >>,
        "/dns/create/" \o ToStr(domain), options, FALSE)

editDNSRecord(c, domain, recordId, options) ==
    makeRequest(c, "editDNSRecord",
        << <<"domain", domain>>,
           <<"recordId", recordId>>,
           <<"options", options>> >>,
        "/dns/edit/" \o ToStr(domain) \o "/" \o ToStr(recordId), options, TRUE)

\* editByNameTypePath with the subdomain segment always appended
editByNameTypePath_always(domain, type, subdomain) ==
    "/dns/editByNameType/" \o ToStr(domain) \o "/" \o ToStr(type)
        \o "/" \o ToStr(Default(subdomain, Str("")))

\* the endpoint of editDNSRecordsByType (subdomain = '' when omitted)
editByNameTypePath(domain, type, subdomain) ==
    IF Truthy(Default(subdomain, Str("")))
    THEN "/dns/editByNameType/" \o ToStr(domain) \o "/" \o ToStr(type)
            \o "/" \o ToStr(Default(subdomain, Str("")))
    ELSE "/dns/editByNameType/" \o ToStr(domain) \o "/" \o ToStr(type)

editDNSRecordsByType(c, domain, type, subdomain, options) ==
    makeRequest(c, "editDNSRecordsByType",
        << <<"domain", domain>>,
           <<"type", type>>,
           <<"subdomain", subdomain>>,
           <<"options", options>> >>,
        editByNameTypePath(domain, type, subdomain), options, TRUE)

deleteDNSRecord(c, domain, recordId) ==
    makeRequest(c, "deleteDNSRecord",
        << <<"domain", domain>>, <<"recordId", recordId>> >>,
        "/dns/delete/" \o ToStr(domain) \o "/" \o ToStr(recordId),
        Undefined, TRUE)

\* the endpoint of deleteDNSRecordsByType (subdomain = '' when omitted)
deleteByNameTypePath(domain, type, subdomain) ==
    IF Truthy(Default(subdomain, Str("")))
    THEN "/dns/deleteByNameType/" \o ToStr(domain) \o "/" \o ToStr(type)
            \o "/" \o ToStr(Default(subdomain, Str("")))
    ELSE "/dns/deleteByNameType/" \o ToStr(domain) \o "/" \o ToStr(type)

deleteDNSRecordsByType(c, domain, type, subdomain) ==
    makeRequest(c, "deleteDNSRecordsByType",
        << <<"domain", domain>>,
           <<"type", type>>,
           <<"subdomain", subdomain>> >>,
        deleteByNameTypePath(domain, type, subdomain), Undefined, TRUE)

getDNSRecords(c, domain, recordId) ==
    makeRequest(c, "getDNSRecords",
        << <<"domain", domain>>, <<"recordId", recordId>> >>,
        IF Truthy(recordId)
        THEN "/dns/retrieve/" \o ToStr(domain) \o "/" \o ToStr(recordId)
        ELSE "/dns/retrieve/" \o ToStr(domain),
        Undefined, FALSE)

\* the endpoint of getDNSRecordsByType (subdomain = '' when omitted)
retrieveByNameTypePath(domain, type, subdomain) ==
    IF Truthy(Default(subdomain, Str("")))
    THEN "/dns/retrieveByNameType/" \o ToStr(domain) \o "/" \o ToStr(type)
            \o "/" \o ToStr(Default(subdomain, Str("")))
    ELSE "/dns/retrieveByNameType/" \o ToStr(domain) \o "/" \o ToStr(type)

getDNSRecordsByType(c, domain, type, subdomain) ==
    makeRequest(c, "getDNSRecordsByType",
        << <<"domain", domain>>,
           <<"type", type>>,
           <<"subdomain", subdomain>> >>,
        retrieveByNameTypePath(domain, type, subdomain), Undefined, FALSE)

createDNSSECRecord(c, domain, options) ==
    makeRequest(c, "createDNSSECRecord",
        << <<"domain", domain>>, <<"options", options>> >>,
        "/dns/createDnssecRecord/" \o ToStr(domain), options, TRUE)

getDNSSECRecords(c, domain) ==
    makeRequest(c, "getDNSSECRecords", << <<"domain", domain>> >>,
        "/dns/getDnssecRecords/" \o ToStr(domain), Undefined, FALSE)

deleteDNSSECRecord(c, domain, keyTag) ==
    makeRequest(c, "deleteDNSSECRecord",
        << <<"domain", domain>>, <<"keyTag", keyTag>> >>,
        "/dns/deleteDnssecRecord/" \o ToStr(domain) \o "/" \o ToStr(keyTag),
        Undefined, TRUE)

getSSLBundle(c, domain) ==
    makeRequest(c, "getSSLBundle", << <<"domain", domain>> >>,
        "/ssl/retrieve/" \o ToStr(domain), Undefined, FALSE)

----------------------------------------------------------------------------
(* What the transport delivers.                                            *)

LimitsMeta ==
    Obj([TTL |-> Str("10"), limit |-> Str("1"), used |-> Num(1),
         naturalLanguage |-> Str("1 out of 1 checks within 10 seconds used.")])

\* parsed response bodies (envelopes)
Envelopes ==
    { Obj([status |-> Str("SUCCESS"), yourIp |-> Str("203.0.113.7")]),
      Obj([status |-> Str("SUCCESS"),
           response |-> Obj([avail |-> Str("yes"), price |-> Str("10.98")]),
           limits |-> LimitsMeta]),
      Obj([records |-> Arr(<<Obj([status |-> Str("no"), type |-> Str("A")])>>)]),
      Obj([status |-> Str("error"), message |-> Str("Invalid domain.")]),
      Obj([status |-> Str("ERROR"), message |-> Str("rate limit exceeded")]),
      Obj([status |-> Str("ERROR"),
           message |-> Str("Domain check limit reached."),
           limits |-> LimitsMeta]),
      Obj([status |-> Str("ERROR"), message |-> Str("Rate Limit Exceeded")]),
      Obj([status |-> Str("ERROR"), message |-> Str("Invalid domain.")]),
      Obj([status |-> Str("ERROR"), message |-> Str("")]),
      Obj([status |-> Str("ERROR")]),
      Obj([status |-> Str("ERROR"), message |-> Null]),
      Obj([status |-> Str("ERROR"),
           message |-> Str("HTTP 500: Internal Server Error")]),
      Obj([status |-> Str("SUCCESS"),
           forwards |-> Arr(<<Obj([status |-> Str("SUCCESS"),
                                   wildcard |-> Str("yes")])>>)]),
      Null }

\* a body is JSON text that parses to a value, or text that does not parse
Bodies == {[kind |-> "json", value |-> e] : e \in Envelopes}
            \cup {[kind |-> "invalid"]}

\* the bodies tried with a non-2xx status
FailBodies ==
    { [kind |-> "invalid"],
      [kind |-> "json", value |->
          Obj([status |-> Str("SUCCESS"), yourIp |-> Str("203.0.113.7")])],
      [kind |-> "json", value |->
          Obj([status |-> Str("ERROR"), message |-> Str("rate limit exceeded")])] }

StatusText(status) ==
    CASE status = 200 -> "OK"
      [] status = 401 -> "Unauthorized"
      [] status = 403 -> "Forbidden"
      [] status = 404 -> "Not Found"
      [] status = 429 -> "Too Many Requests"
      [] status = 500 -> "Internal Server Error"

Responses ==
    {[status |-> 200, statusText |-> StatusText(200), body |-> b] : b \in Bodies}
    \cup {[status |-> s, statusText |-> StatusText(s), body |-> b] :
            s \in {401, 403, 404, 429, 500}, b \in FailBodies}

\* what fetch may reject with: a network failure, an Error without a
\* message, a thrown value that is no Error
Rejections ==
    { NewError("TypeError", "fetch failed"), NewError("Error", ""), Str("boom") }

\* what response.json() throws on text that is not JSON
JsonSyntaxError == NewError("SyntaxError", "Unexpected token < in JSON at position 0")

\* what getPricing throws on a non-2xx status
PricingHttpFailure(response) ==
    NewError("Error", "HTTP " \o ToString(response.status) \o ": "
                         \o response.statusText)

----------------------------------------------------------------------------
(* The steps after fetch has been called.                                  *)

\* the promise of the call is rejected with what the catch block throws
Fail(call, error) == [call EXCEPT !.pc = "failed", !.error = error]

\* thrown is raised inside the try block of the method call c is running
Throw(c, call, thrown) ==
    Fail([call EXCEPT !.thrown = thrown], Caught(c, thrown))

\* fetch resolves with a response: clearTimeout, then the status check
FetchResolve(c, response) ==
    /\ calls[c].pc = "fetching"
    /\ calls' = [calls EXCEPT ![c] =
          LET got == IF @.pipeline
                     THEN [@ EXCEPT !.response = response, !.timer = "cleared"]
                     ELSE [@ EXCEPT !.response = response]
          IN  IF Ok(response) THEN [got EXCEPT !.pc = "reading"]
              ELSE Throw(c, got, IF got.pipeline
                                 THEN HttpFailure(response)
                                 ELSE PricingHttpFailure(response))]
    /\ UNCHANGED <<config, client, normIn, normOut, normPc>>

\* fetch rejects: control goes to the catch block, past clearTimeout
FetchReject(c, thrown) ==
    /\ calls[c].pc = "fetching"
    /\ calls' = [calls EXCEPT ![c] = Throw(c, @, thrown)]
    /\ UNCHANGED <<config, client, normIn, normOut, normPc>>

\* TimerFire with one AbortController shared by all the calls of a client
TimerFire_shared(c) ==
    /\ calls[c].timer = "pending"
    /\ calls' = [d \in Calls |->
          LET fired == IF d = c
                       THEN [calls[d] EXCEPT !.timer = "fired", !.aborted = TRUE]
                       ELSE [calls[d] EXCEPT !.aborted = calls[d].pipeline]
          IN  IF calls[d].pc = "fetching" /\ calls[d].pipeline
              THEN Throw(d, fired, AbortError)
              ELSE IF d = c THEN fired ELSE calls[d]]
    /\ UNCHANGED <<config, client, normIn, normOut, normPc>>

\* the timer armed by #makeRequest runs: controller.abort(); a fetch that
\* is still pending rejects with an AbortError
TimerFire(c) ==
    /\ calls[c].timer = "pending"
    /\ calls' = [calls EXCEPT ![c] =
          LET fired == [@ EXCEPT !.timer = "fired", !.aborted = TRUE]
          IN  IF @.pc = "fetching" THEN Throw(c, fired, AbortError)
              ELSE fired]
    /\ UNCHANGED <<config, client, normIn, normOut, normPc>>

\* response.json() settles, and the method runs to its end
JsonResolve(c) ==
    /\ calls[c].pc = "reading"
    /\ calls' = [calls EXCEPT ![c] =
          IF @.response.body.kind = "invalid"
          THEN Throw(c, @, JsonSyntaxError)
          ELSE LET r == IF @.pipeline
                        THEN AfterJson(@.response.body.value)
                        ELSE AfterPricingJson(@.response.body.value)
               IN  IF r.ok
                   THEN [@ EXCEPT !.pc = "returned",
                            !.value = IF calls[c].pipeline THEN r.value
                                      ELSE None,
                            !.result = IF calls[c].void THEN Undefined
                                       ELSE r.value]
                   ELSE Throw(c, @, r.error)]
    /\ UNCHANGED <<config, client, normIn, normOut, normPc>>

----------------------------------------------------------------------------
(* Arguments the methods are called with.                                  *)

Domains == {Str("example.com"), Str(""), Str("ex ample.com/?x")}

Subdomains == {Undefined, Str(""), Str("www")}

DNSRecordTypes ==
    {Str(x) : x \in {"A", "MX", "CNAME", "ALIAS", "TXT", "NS", "AAAA", "SRV",
                     "TLSA", "CAA", "HTTPS", "SVCB"}}

\* the compiled methods take any string as the record type: the values of
\* DNSRecordType and one that is none of them
TypeArgs == DNSRecordTypes \cup {Str("SPF")}

RecordIds == {Str("106926659")}

\* payloads: empty, an ordinary one, and one with the credential names
Options ==
    { EmptyObj,
      Obj([content |-> Str("1.1.1.1"), ttl |-> Str("600")]),
      Obj([apikey |-> Str("evil"), secretapikey |-> Str("evil"),
           content |-> Str("1.1.1.1")]) }

ListOptions ==
    { Undefined, EmptyObj,
      Obj([includeLabels |-> Bool(TRUE)]),
      Obj([start |-> Str("1000"), includeLabels |-> Bool(FALSE)]) }

ForwardOptions ==
    { Obj([location |-> Str("https://porkbun.com"), type |-> Str("temporary"),
           includePath |-> Bool(p), wildcard |-> Bool(w)]) : p, w \in BOOLEAN }

----------------------------------------------------------------------------
(* A client is constructed and one method is invoked on it.                *)

\* the call record these runs use
First == CHOOSE c \in Calls : TRUE

Init ==
    /\ config \in Configs
    /\ client = Constructor(config)
    /\ calls = [c \in Calls |-> IdleCall]
    /\ normIn = None
    /\ normOut = None
    /\ normPc = "none"

Next ==
    \/ ping(First)
    \/ getPricing(First)
    \/ \E d \in Domains, o \in Options : updateNameServers(First, d, o)
    \/ \E d \in Domains : getNameServers(First, d)
    \/ \E o \in ListOptions : listDomains(First, o)
    \/ \E d \in Domains, o \in ForwardOptions : addURLForward(First, d, o)
    \/ \E d \in Domains : getURLForwarding(First, d)
    \/ \E d \in Domains, r \in RecordIds : deleteURLForward(First, d, r)
    \/ \E d \in Domains : checkDomain(First, d)
    \/ \E d \in Domains, s \in Subdomains \ {Undefined}, o \in Options :
          createGlueRecord(First, d, s, o)
    \/ \E d \in Domains, s \in Subdomains \ {Undefined}, o \in Options :
          updateGlueRecord(First, d, s, o)
    \/ \E d \in Domains, s \in Subdomains \ {Undefined} :
          deleteGlueRecord(First, d, s)
    \/ \E d \in Domains : getGlueRecords(First, d)
    \/ \E d \in Domains, o \in Options : createDNSRecord(First, d, o)
    \/ \E d \in Domains, r \in RecordIds, o \in Options :
          editDNSRecord(First, d, r, o)
    \/ \E d \in Domains, t \in TypeArgs, s \in Subdomains, o \in Options :
          editDNSRecordsByType(First, d, t, s, o)
    \/ \E d \in Domains, r \in RecordIds : deleteDNSRecord(First, d, r)
    \/ \E d \in Domains, t \in TypeArgs, s \in Subdomains :
          deleteDNSRecordsByType(First, d, t, s)
    \/ \E d \in Domains, r \in RecordIds \cup {Undefined} :
          getDNSRecords(First, d, r)
    \/ \E d \in Domains, t \in TypeArgs, s \in Subdomains :
          getDNSRecordsByType(First, d, t, s)
    \/ \E d \in Domains, o \in Options : createDNSSECRecord(First, d, o)
    \/ \E d \in Domains : getDNSSECRecords(First, d)
    \/ \E d \in Domains, r \in RecordIds : deleteDNSSECRecord(First, d, r)
    \/ \E d \in Domains : getSSLBundle(First, d)
    \/ \E r \in Responses : FetchResolve(First, r)
    \/ \E e \in Rejections : FetchReject(First, e)
    \/ TimerFire(First)
    \/ JsonResolve(First)

Spec == Init /\ [][Next]_vars

\* The same runs, with what the event loop guarantees: a timer that stays
\* pending runs. Nothing makes the transport deliver a status or a body.
SpecLive == Init /\ [][Next]_vars /\ WF_vars(TimerFire(First))

----------------------------------------------------------------------------
(* Concurrent calls on one client: up to MaxCalls invocations are in       *)
(* flight at once, each with its own timer, controller and response.       *)

ConcResponses ==
    { r \in Responses :
        \/ r.status \in {403, 500} /\ r.body.kind = "invalid"
        \/ /\ r.status = 200
           /\ r.body.kind = "json"
           /\ \/ Get(r.body.value, "yourIp") # Undefined
              \/ Get(r.body.value, "message") \in
                    { Str("rate limit exceeded"),
                      Str("HTTP 500: Internal Server Error") } }

NextConc ==
    \E c \in Calls :
        \/ ping(c)
        \/ getPricing(c)
        \/ checkDomain(c, Str("example.com"))
        \/ \E r \in ConcResponses : FetchResolve(c, r)
        \/ FetchReject(c, NewError("TypeError", "fetch failed"))
        \/ TimerFire(c)
        \/ JsonResolve(c)

SpecConc == Init /\ [][NextConc]_vars

----------------------------------------------------------------------------
(* Two clients that differ in their credentials only. config and client    *)
(* are the instance the methods are invoked on: the first call is made on  *)
(* the first client, the calls after NewClient on the second.              *)

\* the configuration cfg with another credential pair
OtherCredentials(cfg) ==
    Obj([k \in DOMAIN cfg.v |->
            IF k = "apiKey" THEN Str("pk2")
            ELSE IF k \in {"secretKey", "secretApiKey"} THEN Str("sk2")
            ELSE cfg.v[k]])

\* new PorkbunClient(...) with the other credentials
NewClient ==
    /\ Get(config, "apiKey") = Str("pk1")
    /\ config' = OtherCredentials(config)
    /\ client' = Constructor(OtherCredentials(config))
    /\ UNCHANGED <<calls, normIn, normOut, normPc>>

NextTwin ==
    \/ NewClient
    \/ \E c \in Calls :
          /\ (c = First) <=> (Get(config, "apiKey") = Str("pk1"))
          /\ \/ ping(c)
             \/ getPricing(c)
             \/ checkDomain(c, Str("example.com"))
    \/ \E c \in Calls :
          \/ \E r \in ConcResponses : FetchResolve(c, r)
          \/ FetchReject(c, NewError("TypeError", "fetch failed"))
          \/ TimerFire(c)
          \/ JsonResolve(c)

SpecTwin == Init /\ [][NextTwin]_vars

----------------------------------------------------------------------------
(* Normalisation runs: a value is drawn, #convertApiResponse is applied.   *)

InitNorm ==
    /\ config = None
    /\ client = None
    /\ calls = [c \in Calls |-> IdleCall]
    /\ normIn \in JsonValues
    /\ normOut = None
    /\ normPc = "ready"

\* Normalize writing the converted values into the value it was given
Normalize_inPlace ==
    /\ normPc = "ready"
    /\ normOut' = convertApiResponse(normIn)
    /\ normIn' = convertApiResponse(normIn)
    /\ normPc' = "done"
    /\ UNCHANGED <<config, client, calls>>

\* the function builds new arrays and objects and assigns to none of the
\* properties of its argument
Normalize ==
    /\ normPc = "ready"
    /\ normOut' = convertApiResponse(normIn)
    /\ normPc' = "done"
    /\ UNCHANGED <<config, client, calls, normIn>>

\* #convertApiResponse applied to what it returned
NormalizeAgain ==
    /\ normPc = "done"
    /\ normOut' = convertApiResponse(normOut)
    /\ normPc' = "twice"
    /\ UNCHANGED <<config, client, calls, normIn>>

NextNorm == Normalize \/ NormalizeAgain

SpecNorm == InitNorm /\ [][NextNorm]_vars

----------------------------------------------------------------------------
(* Properties.                                                             *)

Settled(call) == call.pc \in {"returned", "failed"}

\* the parsed envelope of a call's response, None when there is none
Envelope(call) ==
    IF call.response # None /\ call.response.body.kind = "json"
    THEN call.response.body.value ELSE None

\* the response is a 2xx response whose envelope has status ERROR
IsApiError(call) ==
    /\ call.response # None
    /\ Ok(call.response)
    /\ Get(Envelope(call), "status") = Str("ERROR")

AuthMessage == "Authentication failed or additional authentication required"

\* C1: the body of every pipeline request carries apikey and secretapikey
\* equal to the client's credentials, whatever the caller's payload holds
\* under those names.
C1_CredentialsNeverOverridden ==
    \A c \in Calls :
        calls[c].pipeline /\ calls[c].pc # "idle" =>
            /\ Get(calls[c].body, "apikey") = client.apiKey
            /\ Get(calls[c].body, "secretapikey") = client.secretKey

\* C2: a pipeline call whose response has status 403 has failed with a
\* PorkbunAuthError carrying the fixed message, whatever the body; it is
\* never reading the body and has no other error.
C2_ForbiddenIsAuthError ==
    \A c \in Calls :
        calls[c].pipeline /\ calls[c].response # None
                          /\ calls[c].response.status = 403 =>
            /\ calls[c].pc = "failed"
            /\ calls[c].error.class = "PorkbunAuthError"
            /\ calls[c].error.message = AuthMessage

C2_Witness ==
    \E c \in Calls :
        /\ calls[c].pipeline
        /\ calls[c].response # None
        /\ calls[c].response.status = 403
        /\ Get(Envelope(calls[c]), "message") = Str("rate limit exceeded")
        /\ calls[c].pc = "failed"

\* C3: a settled pipeline call whose 2xx response is an ERROR envelope with
\* a message containing "limit" has failed with a PorkbunRateLimitError
\* carrying that message.
C3_LimitIsRateLimitError ==
    \A c \in Calls :
        LET message == Get(Envelope(calls[c]), "message") IN
        (/\ calls[c].pipeline
         /\ Settled(calls[c])
         /\ IsApiError(calls[c])
         /\ message.t = "string"
         /\ \E i \in 1..(Len(message.v) - 4) :
                SubSeq(message.v, i, i + 4) = "limit")
        => /\ calls[c].pc = "failed"
           /\ calls[c].error.class = "PorkbunRateLimitError"
           /\ calls[c].error.message = message.v

C3_Witness ==
    \E c \in Calls :
        /\ calls[c].pipeline
        /\ calls[c].pc = "failed"
        /\ IsApiError(calls[c])
        /\ Get(Envelope(calls[c]), "message") = Str("Domain check limit reached.")
        /\ calls[c].error.class = "PorkbunRateLimitError"

\* C4: a PorkbunRateLimitError raised for an envelope that holds limit
\* metadata carries that metadata in its limits field.
C4_RateLimitErrorCarriesLimits ==
    \A c \in Calls :
        (/\ calls[c].pc = "failed"
         /\ calls[c].error.class = "PorkbunRateLimitError"
         /\ Get(Envelope(calls[c]), "limits") # Undefined)
        => calls[c].error.limits = Get(Envelope(calls[c]), "limits")

\* out is r with every "yes"/"no" that is an object field or an array
\* element, at any depth, replaced by true/false and all else as in r
RECURSIVE IsNormalized(_, _)
IsNormalized(out, r) ==
    IF r.t = "array" THEN
        /\ out.t = "array"
        /\ Len(out.v) = Len(r.v)
        /\ \A i \in 1..Len(r.v) :
              IF r.v[i] = Str("yes") THEN out.v[i] = Bool(TRUE)
              ELSE IF r.v[i] = Str("no") THEN out.v[i] = Bool(FALSE)
              ELSE IsNormalized(out.v[i], r.v[i])
    ELSE IF r.t = "object" THEN
        /\ out.t = "object"
        /\ DOMAIN out.v = DOMAIN r.v
        /\ \A k \in DOMAIN r.v :
              IF r.v[k] = Str("yes") THEN out.v[k] = Bool(TRUE)
              ELSE IF r.v[k] = Str("no") THEN out.v[k] = Bool(FALSE)
              ELSE IsNormalized(out.v[k], r.v[k])
    ELSE out = r

\* C5: the normalised value has the structure of the response, every
\* "yes"/"no" leaf (object field or array element, any depth) rewritten to
\* true/false, every other value unchanged.
C5_NormalizationRewritesEveryLeaf ==
    normPc = "done" => IsNormalized(normOut, normIn)

\* C6: when the timer of a pipeline call runs while fetch is still pending,
\* the request is aborted and the call fails with Error 'Request timeout'.
C6_TimeoutAbortsAndFails ==
    [][\A c \in Calls :
          (/\ calls[c].pc = "fetching"
           /\ calls[c].timer = "pending"
           /\ calls'[c].timer = "fired")
          => /\ calls'[c].aborted
             /\ calls'[c].pc = "failed"
             /\ calls'[c].error.class = "Error"
             /\ calls'[c].error.message = "Request timeout"]_vars

C6_Witness ==
    \E c \in Calls :
        /\ calls[c].pipeline
        /\ calls[c].timer = "fired"
        /\ calls[c].aborted
        /\ calls[c].response = None
        /\ calls[c].pc = "failed"
        /\ calls[c].error.message = "Request timeout"

\* C7: for every public method, a 2xx ERROR envelope makes the call fail, a
\* 403 response makes it fail with a PorkbunAuthError, and no call returns
\* an error envelope.
C7_EveryMethodThroughPipeline ==
    \A c \in Calls :
        /\ Settled(calls[c]) /\ IsApiError(calls[c]) => calls[c].pc = "failed"
        /\ calls[c].response # None /\ calls[c].response.status = 403 =>
              calls[c].pc = "failed" /\ calls[c].error.class = "PorkbunAuthError"

ByTypeOp(method) ==
    CASE method = "editDNSRecordsByType"   -> "edit"
      [] method = "deleteDNSRecordsByType" -> "delete"
      [] method = "getDNSRecordsByType"    -> "retrieve"

\* C8: the three by-type methods request '/dns/<op>ByNameType/<domain>/<type>'
\* when the subdomain is '' or omitted, and that path followed by '/' and
\* the subdomain when it is not empty.
C8_ByTypePath ==
    \A c \in Calls :
        calls[c].method \in {"editDNSRecordsByType", "deleteDNSRecordsByType",
                             "getDNSRecordsByType"} =>
            LET a == calls[c].args
                path == "/dns/" \o ByTypeOp(calls[c].method) \o "ByNameType/"
                            \o a.domain.v \o "/" \o a.type.v
            IN  IF a.subdomain \in {Undefined, Str("")}
                THEN calls[c].endpoint = path
                ELSE calls[c].endpoint = path \o "/" \o a.subdomain.v

C8_Witness ==
    \E c \in Calls :
        /\ calls[c].method = "editDNSRecordsByType"
        /\ calls[c].args.subdomain = Str("")
        /\ calls[c].args.domain = Str("example.com")
        /\ calls[c].endpoint = "/dns/editByNameType/example.com/TXT"
        /\ calls[c].pc = "fetching"

\* the request of a call failed: a non-2xx status, a body that is no JSON,
\* or an ERROR envelope
RequestFailed(call) ==
    /\ call.response # None
    /\ \/ ~Ok(call.response)
       \/ call.response.body.kind = "invalid"
       \/ Get(Envelope(call), "status") = Str("ERROR")

\* C9: every invocation calls fetch exactly once, and a request that failed
\* is never turned into a returned value.
C9_OneRequestNoSwallowedFailure ==
    \A c \in Calls :
        /\ calls[c].pc # "idle" => calls[c].requests = 1
        /\ RequestFailed(calls[c]) => calls[c].pc # "returned"

\* C10: a pipeline call whose response has a non-2xx status other than 403
\* has failed with a plain Error whose message holds the status and the
\* status text, whatever the body.
C10_OtherStatusIsTransportError ==
    \A c \in Calls :
        (/\ calls[c].pipeline
         /\ calls[c].response # None
         /\ ~Ok(calls[c].response)
         /\ calls[c].response.status # 403)
        => /\ calls[c].pc = "failed"
           /\ calls[c].error.class = "Error"
           /\ Includes(calls[c].error.message,
                       ToString(calls[c].response.status))
           /\ Includes(calls[c].error.message, calls[c].response.statusText)

C10_Witness ==
    \E c \in Calls :
        /\ calls[c].pipeline
        /\ calls[c].response # None
        /\ calls[c].response.status = 429
        /\ Get(Envelope(calls[c]), "message") = Str("rate limit exceeded")
        /\ calls[c].pc = "failed"
        /\ calls[c].error.message =
              "API request failed: HTTP 429: Too Many Requests"

\* the error message the claim of C11 expects for an ERROR envelope
ExpectedApiMessage(message) ==
    IF message.t = "string" /\ message.v # "" THEN message.v
    ELSE "Unknown API error"

\* C11: a settled pipeline call whose 2xx response is an ERROR envelope with
\* a message that does not contain "limit" has failed with a plain Error
\* whose message carries the envelope's message, or 'Unknown API error' when
\* the envelope's message is absent, null or empty.
C11_ApiErrorCarriesMessage ==
    \A c \in Calls :
        LET message == Get(Envelope(calls[c]), "message") IN
        (/\ calls[c].pipeline
         /\ Settled(calls[c])
         /\ IsApiError(calls[c])
         /\ ~(message.t = "string" /\ Includes(message.v, "limit")))
        => /\ calls[c].pc = "failed"
           /\ calls[c].error.class = "Error"
           /\ calls[c].error.status = Undefined
           /\ Includes(calls[c].error.message, ExpectedApiMessage(message))

C11_Witness ==
    \E c \in Calls :
        /\ calls[c].pipeline
        /\ calls[c].pc = "failed"
        /\ IsApiError(calls[c])
        /\ Get(Envelope(calls[c]), "message") = Str("")
        /\ calls[c].error.message = "API request failed: Unknown API error"

\* out has the properties and the elements of r at every depth
RECURSIVE SameShape(_, _)
SameShape(out, r) ==
    IF r.t = "array" THEN
        /\ out.t = "array"
        /\ Len(out.v) = Len(r.v)
        /\ \A i \in 1..Len(r.v) : SameShape(out.v[i], r.v[i])
    ELSE IF r.t = "object" THEN
        /\ out.t = "object"
        /\ DOMAIN out.v = DOMAIN r.v
        /\ \A k \in DOMAIN r.v : SameShape(out.v[k], r.v[k])
    ELSE TRUE

HasMessage(thrown) == InstanceOfError(thrown) /\ thrown.message # ""

\* C13: a failed pipeline call whose catch block caught a PorkbunAuthError or
\* a PorkbunRateLimitError fails with that very error; one that caught any
\* other exception than the timeout's fails with a plain Error that carries
\* the exception's message, and with Error 'Unknown error occurred' when the
\* exception has no message.
C13_ExceptionsWrapped ==
    \A c \in Calls :
        calls[c].pipeline /\ calls[c].pc = "failed" =>
            LET thrown == calls[c].thrown
                error  == calls[c].error
            IN  IF InstanceOfError(thrown) /\ thrown.name = "AbortError"
                THEN TRUE
                ELSE IF InstanceOfError(thrown) /\
                        thrown.class \in {"PorkbunAuthError",
                                          "PorkbunRateLimitError"}
                THEN error = thrown
                ELSE IF HasMessage(thrown)
                THEN /\ error.class = "Error"
                     /\ Includes(error.message, thrown.message)
                ELSE error = NewError("Error", "Unknown error occurred")

\* what the outcome of a call may depend on: the method and its arguments,
\* the response, what fetch rejected with, and whether its own timer ran
OwnInputs(call) ==
    <<call.method, call.args, call.response, call.timer,
      IF call.response = None THEN call.thrown ELSE None>>

\* C14: with several calls in flight on one client, every step changes one
\* call only (a timer that runs aborts and fails the call it was armed for,
\* and no other), and two settled calls with the same method, arguments and
\* transport outcome have the same outcome.
C14_CallsIndependent ==
    /\ [](\A c, d \in Calls :
            (/\ Settled(calls[c]) /\ Settled(calls[d])
             /\ OwnInputs(calls[c]) = OwnInputs(calls[d]))
            => /\ calls[c].pc = calls[d].pc
               /\ calls[c].result = calls[d].result
               /\ calls[c].error = calls[d].error)
    /\ [][\A c \in Calls :
            calls'[c] # calls[c] =>
                \A d \in Calls \ {c} : calls'[d] = calls[d]]_vars

C14_Witness ==
    \E c, d \in Calls :
        /\ c # d
        /\ calls[c].pipeline /\ calls[d].pipeline
        /\ calls[c].timer = "fired"
        /\ calls[c].error = NewError("Error", "Request timeout")
        /\ calls[d].pc = "fetching"
        /\ calls[d].timer = "pending"
        /\ ~calls[d].aborted

\* the category of a failure, by its cause (the taxonomy of the errors)
Cause(call) ==
    IF call.response = None
    THEN IF call.thrown = AbortError THEN "Timeout" ELSE "API"
    ELSE IF call.response.status = 403 THEN "Authentication"
    ELSE IF ~Ok(call.response) THEN "Transport"
    ELSE IF IsApiError(call) /\ IsRateLimit(Get(Envelope(call), "message"))
         THEN "RateLimit"
         ELSE "API"

\* C15: two failed calls whose failures are of different categories have
\* errors that differ in class or in message.
C15_CategoriesDistinguishable ==
    \A c, d \in Calls :
        (/\ calls[c].pc = "failed" /\ calls[d].pc = "failed"
         /\ Cause(calls[c]) # Cause(calls[d]))
        => <<calls[c].error.class, calls[c].error.message>>
             # <<calls[d].error.class, calls[d].error.message>>

\* C16: the request of getPricing goes to '/pricing/get' with a body that
\* holds neither apikey nor secretapikey; the request of every other method
\* holds both.
C16_OnlyPricingUnauthenticated ==
    \A c \in Calls :
        calls[c].pc # "idle" =>
            IF calls[c].method = "getPricing"
            THEN /\ calls[c].endpoint = "/pricing/get"
                 /\ "apikey" \notin DOMAIN calls[c].sent.v
                 /\ "secretapikey" \notin DOMAIN calls[c].sent.v
            ELSE /\ "apikey" \in DOMAIN calls[c].sent.v
                 /\ "secretapikey" \in DOMAIN calls[c].sent.v

\* C17: on a client constructed from {apiKey, secretApiKey, baseUrl?,
\* timeout?}, every request of a pipeline call carries apikey equal to the
\* apiKey given and secretapikey equal to the secretApiKey given.
C17_DocumentedConfigAuthenticates ==
    \A c \in Calls :
        (/\ "secretApiKey" \in DOMAIN config.v
         /\ calls[c].pipeline
         /\ calls[c].pc # "idle")
        => /\ Get(calls[c].sent, "apikey") = Get(config, "apiKey")
           /\ Get(calls[c].sent, "secretapikey") = Get(config, "secretApiKey")

\* C18: every request of a DNS operation that takes a record type was made
\* for one of the twelve types A, AAAA, CNAME, MX, TXT, NS, SRV, ALIAS,
\* TLSA, CAA, HTTPS, SVCB: no other type is accepted.
C18_RecordTypeValidated ==
    \A c \in Calls :
        (/\ calls[c].method \in {"editDNSRecordsByType",
                                 "deleteDNSRecordsByType",
                                 "getDNSRecordsByType"}
         /\ calls[c].requests > 0)
        => calls[c].args.type \in
              {Str(x) : x \in {"A", "AAAA", "CNAME", "MX", "TXT", "NS", "SRV",
                               "ALIAS", "TLSA", "CAA", "HTTPS", "SVCB"}}

\* C19: every call that was made settles, the transport delivering nothing
\* it is not bound to deliver: the timer fails the call whose status or body
\* has not arrived.
C19_EveryCallSettles ==
    \A c \in Calls : (calls[c].pc # "idle") ~> Settled(calls[c])

\* C20: a pipeline call that has settled has no timer pending.
C20_NoTimerOutlivesCall ==
    \A c \in Calls :
        calls[c].pipeline /\ Settled(calls[c]) => calls[c].timer # "pending"

\* C21: a pipeline call arms its timer with the timeout of the
\* configuration when that holds a number, 0 included, and with 30000
\* otherwise; its url starts with the baseUrl of the configuration when it
\* holds one, and with the production URL otherwise.
C21_ConfiguredTimeoutAndBaseUrl ==
    \A c \in Calls :
        calls[c].pipeline /\ calls[c].pc # "idle" =>
            /\ calls[c].delay =
                  IF Get(config, "timeout").t = "number"
                  THEN Get(config, "timeout") ELSE Num(DEFAULT_TIMEOUT)
            /\ calls[c].url =
                  (IF Get(config, "baseUrl").t = "string"
                   THEN Get(config, "baseUrl").v ELSE DEFAULT_BASE_URL)
                      \o calls[c].endpoint

\* C22: no step changes the configuration or the fields of the client, and
\* every request, whatever calls came before it or are in flight, is built
\* from the values the constructor set.
C22_ClientNeverModified ==
    /\ [](/\ client = Constructor(config)
          /\ \A c \in Calls :
                calls[c].pc # "idle" =>
                    /\ calls[c].url =
                          ToStr(Constructor(config).baseUrl) \o calls[c].endpoint
                    /\ calls[c].pipeline =>
                          /\ calls[c].delay = Constructor(config).timeout
                          /\ Get(calls[c].body, "apikey") =
                                Constructor(config).apiKey
                          /\ Get(calls[c].body, "secretapikey") =
                                Constructor(config).secretKey)
    /\ [][client' = client /\ config' = config]_vars

C22_Witness ==
    \E c, d \in Calls :
        /\ c # d
        /\ calls[c].pc = "failed" /\ calls[c].pipeline
        /\ calls[d].pc = "fetching" /\ calls[d].pipeline
        /\ calls[d].method = "checkDomain"
        /\ calls[d].url =
              ToStr(client.baseUrl) \o "/domain/checkDomain/example.com"
        /\ client = Constructor(config)

\* C23: every pipeline request is a POST with the header Content-Type:
\* application/json, to the base URL followed by the path as the wrapper
\* built it, with the serialised merge of credentials and payload as body.
C23_PostJsonToBaseUrlPlusPath ==
    \A c \in Calls :
        calls[c].pipeline /\ calls[c].pc # "idle" =>
            /\ calls[c].verb = "POST"
            /\ DOMAIN calls[c].headers = {"Content-Type"}
            /\ calls[c].headers["Content-Type"] = "application/json"
            /\ calls[c].url = ToStr(client.baseUrl) \o calls[c].endpoint
            /\ calls[c].method = "getNameServers" =>
                  calls[c].url = ToStr(client.baseUrl) \o "/domain/getNs/"
                                    \o calls[c].args.domain.v
            /\ calls[c].sent =
                  JSONStringify(Spread(
                      Obj([apikey |-> client.apiKey,
                           secretapikey |-> client.secretKey]),
                      calls[c].data))

C23_Witness ==
    \E c \in Calls :
        /\ calls[c].method = "getNameServers"
        /\ calls[c].pc = "fetching"
        /\ calls[c].url =
              "https://api.porkbun.com/api/json/v3/domain/getNs/ex ample.com/?x"
        /\ calls[c].sent = Obj([apikey |-> Str("pk1"), secretapikey |-> Str("sk1")])

\* the wrappers that await #makeRequest and return nothing
VoidWrappers ==
    {"updateNameServers", "addURLForward", "deleteURLForward",
     "createGlueRecord", "updateGlueRecord", "deleteGlueRecord",
     "editDNSRecord", "editDNSRecordsByType", "deleteDNSRecord",
     "deleteDNSRecordsByType", "createDNSSECRecord", "deleteDNSSECRecord"}

\* every wrapper can be invoked on call c with every argument value
AcceptsEveryArgument(c) ==
    /\ \A d \in Domains, o \in Options :
          /\ ENABLED updateNameServers(c, d, o)
          /\ ENABLED createDNSRecord(c, d, o)
          /\ ENABLED createDNSSECRecord(c, d, o)
    /\ \A d \in Domains :
          /\ ENABLED getNameServers(c, d)
          /\ ENABLED getURLForwarding(c, d)
          /\ ENABLED checkDomain(c, d)
          /\ ENABLED getGlueRecords(c, d)
          /\ ENABLED getDNSSECRecords(c, d)
          /\ ENABLED getSSLBundle(c, d)
    /\ \A o \in ListOptions : ENABLED listDomains(c, o)
    /\ \A d \in Domains, o \in ForwardOptions : ENABLED addURLForward(c, d, o)
    /\ \A d \in Domains, r \in RecordIds :
          /\ ENABLED deleteURLForward(c, d, r)
          /\ ENABLED deleteDNSRecord(c, d, r)
          /\ ENABLED deleteDNSSECRecord(c, d, r)
    /\ \A d \in Domains, r \in RecordIds \cup {Undefined} :
          ENABLED getDNSRecords(c, d, r)
    /\ \A d \in Domains, r \in RecordIds, o \in Options :
          ENABLED editDNSRecord(c, d, r, o)
    /\ \A d \in Domains, u \in Subdomains \ {Undefined} :
          /\ ENABLED deleteGlueRecord(c, d, u)
          /\ \A o \in Options :
                /\ ENABLED createGlueRecord(c, d, u, o)
                /\ ENABLED updateGlueRecord(c, d, u, o)
    /\ \A d \in Domains, t \in TypeArgs, u \in Subdomains :
          /\ ENABLED deleteDNSRecordsByType(c, d, t, u)
          /\ ENABLED getDNSRecordsByType(c, d, t, u)
          /\ \A o \in Options : ENABLED editDNSRecordsByType(c, d, t, u, o)

C25_ReturnsIffNotError ==
    \A c \in Calls :
        calls[c].pipeline /\ Settled(calls[c]) =>
            /\ calls[c].pc = "returned" <=>
                  /\ calls[c].response # None
                  /\ Ok(calls[c].response)
                  /\ calls[c].response.body.kind = "json"
                  /\ Get(Envelope(calls[c]), "status") # Str("ERROR")
            /\ calls[c].pc = "returned" =>
                  Get(calls[c].value, "status") = Undefined

\* 'yes' for true and 'no' for false
YesNo(b) == Str(IF b = Bool(TRUE) THEN "yes" ELSE "no")

\* the flag is sent as the encoding of b, and normalising an object field
\* that holds what was sent gives b
SentAs(sent, flag, b) ==
    /\ Get(sent, flag) = YesNo(b)
    /\ Get(convertApiResponse(Obj([x \in {flag} |-> Get(sent, flag)])), flag) = b

\* C26: addURLForward sends includePath and wildcard, and listDomains a
\* defined includeLabels, as 'yes'/'no', which normalisation turns back
\* into the boolean; an undefined includeLabels is not sent.
C26_BooleanEncodingInverse ==
    \A c \in Calls :
        /\ calls[c].method = "addURLForward" =>
              /\ SentAs(calls[c].sent, "includePath",
                        Get(calls[c].args.options, "includePath"))
              /\ SentAs(calls[c].sent, "wildcard",
                        Get(calls[c].args.options, "wildcard"))
        /\ calls[c].method = "listDomains" =>
              LET b == Get(Default(calls[c].args.options, EmptyObj),
                           "includeLabels")
              IN  IF b = Undefined
                  THEN "includeLabels" \notin DOMAIN calls[c].sent.v
                  ELSE SentAs(calls[c].sent, "includeLabels", b)

C26_Witness ==
    \E c \in Calls :
        /\ calls[c].method = "addURLForward"
        /\ Get(calls[c].args.options, "includePath") = Bool(TRUE)
        /\ Get(calls[c].args.options, "wildcard") = Bool(FALSE)
        /\ Get(calls[c].sent, "includePath") = Str("yes")
        /\ Get(calls[c].sent, "wildcard") = Str("no")

\* C27: applying #convertApiResponse to what it returned returns the same
\* value, and no application changes the value it was given.
C27_NormalizationIdempotentPure ==
    [][/\ normIn' = normIn
       /\ normPc = "done" /\ normPc' = "twice" => normOut' = normOut]_vars

C27_Witness ==
    /\ normPc = "twice"
    /\ normIn = Obj([response |-> Obj([avail |-> Str("yes"),
                                       price |-> Str("10.98")])])
    /\ normOut = Obj([response |-> Obj([avail |-> Bool(TRUE),
                                        price |-> Str("10.98")])])

\* the credential values of the two clients
CredentialValues == {"pk1", "sk1", "pk2", "sk2"}

\* C28: a call made on the first client and a call made on the client with
\* the other credentials, of the same method with the same arguments and
\* the same transport outcome, have the same url, the same result and the
\* same error; no url and no error message holds a credential value.
C28_CredentialsOnlyInBody ==
    /\ \A c, d \in Calls :
          /\ (/\ calls[c].method = calls[d].method
              /\ calls[c].args = calls[d].args)
             => calls[c].url = calls[d].url
          /\ (/\ Settled(calls[c]) /\ Settled(calls[d])
              /\ OwnInputs(calls[c]) = OwnInputs(calls[d]))
             => /\ calls[c].pc = calls[d].pc
                /\ calls[c].result = calls[d].result
                /\ calls[c].error = calls[d].error
    /\ \A c \in Calls, k \in CredentialValues :
          /\ ~Includes(calls[c].url, k)
          /\ calls[c].error # None => ~Includes(calls[c].error.message, k)

C28_Witness ==
    \E d \in Calls \ {First} :
        /\ calls[First].pc = "failed" /\ calls[d].pc = "failed"
        /\ calls[First].method = "checkDomain"
        /\ OwnInputs(calls[First]) = OwnInputs(calls[d])
        /\ Get(calls[First].sent, "apikey") = Str("pk1")
        /\ Get(calls[d].sent, "apikey") = Str("pk2")
        /\ calls[d].error.class = "PorkbunRateLimitError"

====
